---- MODULE Spec2Model ----
(***************************************************************************)
(* The workflow dashboard of src/app.py as a state machine.                *)
(*                                                                         *)
(* app.py is a Streamlit script: the framework runs the whole file from    *)
(* top to bottom once when the page opens and once more after every widget *)
(* interaction.  A run loads the CSV (load_data), enriches it (lines       *)
(* 29-42), reads the three multiselect widgets (49-65), filters (67-71)    *)
(* and computes the KPIs, the daily trend, the workload ranking and the    *)
(* recommendation list from the filtered frame (80-165).  The state of the *)
(* model is the CSV, the widget values kept by the session, and everything *)
(* the last run computed.                                                  *)
(*                                                                         *)
(* Numbers.  Durations and costs are integers in the model.  Means are     *)
(* compared as exact fractions; round(x, 2) is modelled in hundredths.     *)
(***************************************************************************)
EXTENDS Integers, Sequences, FiniteSets, TLC

\* Longest CSV built freely from the sample rows.
MaxRows == 3
\* Largest number of delayed / on-time rows in the two-block CSVs that
\* exercise the 30 % threshold of generate_insights (3 of 10 is exactly 30 %).
MaxDelayed == 3
MaxOnTime == 7

(***************************************************************************)
(* Cells of the CSV as pandas.read_csv types them.                         *)
(***************************************************************************)
\* A numeric cell, an empty cell (NaN) and a cell holding non-numeric text.
Num(n) == [k |-> "num", n |-> n]
NaN == [k |-> "nan", n |-> 0]
Text == [k |-> "str", n |-> 0]
\* A string cell as its sequence of characters, or an empty cell (a float NaN).
Str(s) == [k |-> "str", s |-> s]
NaNStr == [k |-> "nan", s |-> <<>>]
\* Python's None, the value the regex lambda yields when no digit is found.
None == [k |-> "none", s |-> <<>>]
\* An empty Approval_Level cell (read_csv turns it into NaN).
NA == "NaN"

Asha == Str(<<"A", "_", "7">>)
Ben == Str(<<"B", "4", "x", "2">>)
Chen == Str(<<"C">>)
IT == <<"I", "T">>
Ops == <<"O", "p", "s">>

\* Start_Time in hours since the first midnight of the data.
HoursPerDay == 24

Row(dept, prio, emp, est, act, cost, start, appr) ==
    [Department |-> dept, Priority_Level |-> prio, Assigned_Employee |-> emp,
     Estimated_Duration |-> est, Actual_Duration |-> act,
     Cost_Per_Task |-> cost, Start_Time |-> start, Approval_Level |-> appr]

\* Sample rows of the dataset.  The first five are well formed; among them are
\* a delayed row, a row that meets its estimate exactly, an early row, a row
\* without Actual_Duration, departments with equal mean cost and employees with
\* equal summed duration.  The last two are malformed.  Department,
\* Priority_Level, Cost_Per_Task and Start_Time are present in every row.
CleanRows ==
    { Row(IT,  "High", Asha, Num(2), Num(3), 50, 9,  NA),
      Row(Ops, "Low",  Ben,  Num(2), Num(2), 10, 20, "L1"),
      Row(Ops, "High", Asha, Num(2), Num(1), 50, 30, "L2"),
      Row(IT,  "Low",  Chen, Num(2), NaN,    10, 33, NA),
      Row(Ops, "Low",  Ben,  Num(1), Num(3), 90, 50, "L1") }
MalformedRows ==
    { Row(IT,  "Low",  NaNStr, Num(2), Num(3), 10, 9, "L1"),
      Row(Ops, "High", Chen,   Num(2), Text,   10, 9, NA) }
Rows == CleanRows \cup MalformedRows

RECURSIVE Rep(_, _)
Rep(r, n) == IF n = 0 THEN <<>> ELSE <<r>> \o Rep(r, n - 1)

IsLate(r) == r.Actual_Duration.k = "num" /\ r.Estimated_Duration.k = "num"
             /\ r.Actual_Duration.n > r.Estimated_Duration.n

\* The CSV files the model is run on; each has at least one data row.
FreeTables == UNION { [1..n -> Rows] : n \in 1..MaxRows }
BlockTables ==
    { Rep(d, i) \o Rep(o, j) :
        d \in { r \in CleanRows : IsLate(r) },
        o \in { r \in CleanRows : ~IsLate(r) },
        i \in 0..MaxDelayed, j \in 0..MaxOnTime } \ {<<>>}
Tables == FreeTables \cup BlockTables

VARIABLES
    csv,                \* the file load_data reads
    department_filter,  \* the widgets' values, kept by the session
    priority_filter,
    delay_filter,
    df,                 \* the enriched frame of the last run
    filtered_df,
    kpi,
    trend_df,
    workload_top,
    recommendations,
    error               \* the exception that ended the last run, or "none"

vars == <<csv, department_filter, priority_filter, delay_filter, df,
          filtered_df, kpi, trend_df, workload_top, recommendations, error>>

(***************************************************************************)
(* Lines 17-42: load and enrich.                                           *)
(***************************************************************************)
\* st.cache_data hands every run its own copy of the parsed file.
load_data(file) == file

\* Line 33: df.fillna({"Approval_Level": "Not Required"}).
fillna(v) == IF v = NA THEN "Not Required" ELSE v

IsDigit(c) == c \in {"0", "1", "2", "3", "4", "5", "6", "7", "8", "9"}

\* The longest run of digits at the head of s.
RECURSIVE DigitRun(_)
DigitRun(s) ==
    IF s = <<>> \/ ~IsDigit(Head(s)) THEN <<>>
    ELSE <<Head(s)>> \o DigitRun(Tail(s))

\* Line 37: re.findall(r'\d+', x)[0] if re.findall(r'\d+', x) else None.
RECURSIVE FirstDigits(_)
FirstDigits(s) ==
    IF s = <<>> THEN None
    ELSE IF IsDigit(Head(s)) THEN Str(DigitRun(s))
    ELSE FirstDigits(Tail(s))

\* re.findall raises TypeError when x is not a string (an empty cell is a float).
RegexRaises(raw) == \E i \in 1..Len(raw) : raw[i].Assigned_Employee.k # "str"

\* A duration column holding text is of dtype object; subtracting it raises.
SubtractRaises(raw) ==
    \E i \in 1..Len(raw) :
        raw[i].Actual_Duration.k = "str" \/ raw[i].Estimated_Duration.k = "str"

\* Line 41: NaN if either operand is NaN.
Duration_Difference(r) ==
    IF r.Actual_Duration.k = "num" /\ r.Estimated_Duration.k = "num"
    THEN Num(r.Actual_Duration.n - r.Estimated_Duration.n)
    ELSE NaN

\* The comparison written >= 0.
AtLeastZero(d) == d.k = "num" /\ d.n >= 0

\* NaN > 0 is False.
GreaterThanZero(d) == d.k = "num" /\ d.n > 0

\* Line 42: np.where(diff > 0, "Delayed", "On-Time").
Delay_Flag(d) == IF GreaterThanZero(d) THEN "Delayed" ELSE "On-Time"

EnrichRow(r) ==
    [Department |-> r.Department,
     Priority_Level |-> r.Priority_Level,
     Assigned_Employee |-> r.Assigned_Employee,
     Estimated_Duration |-> r.Estimated_Duration,
     Actual_Duration |-> r.Actual_Duration,
     Cost_Per_Task |-> r.Cost_Per_Task,
     Start_Time |-> r.Start_Time,
     Approval_Level |-> fillna(r.Approval_Level),
     Employee_ID_Number |-> FirstDigits(r.Assigned_Employee.s),
     Duration_Difference |-> Duration_Difference(r),
     Delay_Flag |-> Delay_Flag(Duration_Difference(r))]

\* Lines 29-42 as a whole: the enriched frame, or the exception raised.
Enrich(raw) ==
    IF RegexRaises(raw) \/ SubtractRaises(raw)
    THEN [raised |-> TRUE, frame |-> <<>>]
    ELSE [raised |-> FALSE, frame |-> [i \in 1..Len(raw) |-> EnrichRow(raw[i])]]

(***************************************************************************)
(* Lines 49-71: the widgets' options and the filter.                       *)
(***************************************************************************)
\* df[col].unique(), as a set.
Departments(data) == { data[i].Department : i \in 1..Len(data) }
Priorities(data) == { data[i].Priority_Level : i \in 1..Len(data) }
DelayFlags(data) == { data[i].Delay_Flag : i \in 1..Len(data) }

\* The mask with the three tests joined by | instead of &.
MaskAnyDimension(data, depts, prios, flags) ==
    [i \in 1..Len(data) |->
        \/ data[i].Department \in depts
        \/ data[i].Priority_Level \in prios
        \/ data[i].Delay_Flag \in flags]

\* Lines 68-70: the boolean mask.
Mask(data, depts, prios, flags) ==
    [i \in 1..Len(data) |->
        /\ data[i].Department \in depts
        /\ data[i].Priority_Level \in prios
        /\ data[i].Delay_Flag \in flags]

\* df[mask]: the rows whose mask entry is True, in order.
RECURSIVE BoolIndex(_, _, _)
BoolIndex(data, mask, i) ==
    IF i > Len(data) THEN <<>>
    ELSE (IF mask[i] THEN <<data[i]>> ELSE <<>>) \o BoolIndex(data, mask, i + 1)

Filter(data, depts, prios, flags) ==
    BoolIndex(data, Mask(data, depts, prios, flags), 1)

(***************************************************************************)
(* groupby: keys in ascending order (sort=True), strings compared as       *)
(* Python compares them, code point by code point.                         *)
(***************************************************************************)
CodePoint(c) ==
    CASE c = "2" -> 50 [] c = "4" -> 52 [] c = "7" -> 55
      [] c = "A" -> 65 [] c = "B" -> 66 [] c = "C" -> 67
      [] c = "I" -> 73 [] c = "O" -> 79 [] c = "T" -> 84
      [] c = "_" -> 95 [] c = "p" -> 112 [] c = "s" -> 115
      [] c = "x" -> 120

RECURSIVE StrLess(_, _)
StrLess(a, b) ==
    IF b = <<>> THEN FALSE
    ELSE IF a = <<>> THEN TRUE
    ELSE IF Head(a) = Head(b) THEN StrLess(Tail(a), Tail(b))
    ELSE CodePoint(Head(a)) < CodePoint(Head(b))

\* The keys of a groupby result, ascending.
RECURSIVE SortedKeys(_)
SortedKeys(S) ==
    IF S = {} THEN <<>>
    ELSE LET m == CHOOSE x \in S : \A y \in S \ {x} : StrLess(x, y)
         IN <<m>> \o SortedKeys(S \ {m})

Employees(data) == { data[i].Assigned_Employee.s : i \in 1..Len(data) }

\* The sum of a sequence of numbers.
RECURSIVE Sum(_)
Sum(xs) == IF xs = <<>> THEN 0 ELSE Head(xs) + Sum(Tail(xs))

\* Series.sum() and Series.count() skip NaN.
ActualOrZero(r) == IF r.Actual_Duration.k = "num" THEN r.Actual_Duration.n ELSE 0
ActualPresent(r) == IF r.Actual_Duration.k = "num" THEN 1 ELSE 0
IsDelayed(r) == IF r.Delay_Flag = "Delayed" THEN 1 ELSE 0

\* data.groupby("Department")["Cost_Per_Task"]: the sum and the size of a group.
DeptCostSum(data, d) ==
    Sum([i \in 1..Len(data) |->
            IF data[i].Department = d THEN data[i].Cost_Per_Task ELSE 0])
DeptCount(data, d) ==
    Sum([i \in 1..Len(data) |-> IF data[i].Department = d THEN 1 ELSE 0])

\* The group's total in place of its mean (.sum() for .mean()).
DeptTotal(data, d) == <<DeptCostSum(data, d), 1>>

\* .mean() of a group, as the fraction <<sum, count>>; a group has a row.
DeptMean(data, d) == <<DeptCostSum(data, d), DeptCount(data, d)>>

\* data.groupby("Assigned_Employee")["Actual_Duration"].sum() at one key.
EmployeeDuration(data, e) ==
    Sum([i \in 1..Len(data) |->
            IF data[i].Assigned_Employee.s = e THEN ActualOrZero(data[i]) ELSE 0])

\* a > b for fractions with positive denominators.
Greater(a, b) == a[1] * b[2] > b[1] * a[2]

\* Series.idxmax(): the label of the first row holding the maximum; ValueError
\* on an empty Series.  keys is the index in order, vals the values.
idxmax(keys, vals) ==
    IF keys = <<>> THEN [raised |-> TRUE, label |-> <<>>]
    ELSE LET i == CHOOSE j \in 1..Len(keys) :
                    /\ \A m \in 1..Len(keys) : ~Greater(vals[m], vals[j])
                    /\ \A m \in 1..(j - 1) : Greater(vals[j], vals[m])
         IN [raised |-> FALSE, label |-> keys[i]]

(***************************************************************************)
(* Lines 80-86: the KPI row.                                               *)
(***************************************************************************)
\* round(num/den, 0) for num >= 0, den > 0, halves to the even neighbour as
\* Python's round does on a value that is exact in binary.
RoundHalfEven(num, den) ==
    LET q == num \div den
        r == num % den
    IN IF 2 * r < den THEN q
       ELSE IF 2 * r > den THEN q + 1
       ELSE IF q % 2 = 0 THEN q ELSE q + 1

CountDelayed(data) == Sum([i \in 1..Len(data) |-> IsDelayed(data[i])])

\* Line 82: round(mean, 2) in hundredths; the mean of nothing is NaN.
AvgActualDuration(data) ==
    LET c == Sum([i \in 1..Len(data) |-> ActualPresent(data[i])])
        t == Sum([i \in 1..Len(data) |-> ActualOrZero(data[i])])
    IN IF c = 0 THEN NaN ELSE Num(RoundHalfEven(100 * t, c))

\* Line 84: round(sum, 2); the costs are integers.
TotalCost(data) == Sum([i \in 1..Len(data) |-> data[i].Cost_Per_Task])

\* The percentage cut to two decimals instead of rounded.
DelayPercentTruncated(data) ==
    IF CountDelayed(data) = 0 THEN 0
    ELSE (100 * 100 * CountDelayed(data)) \div Len(data)

\* Line 86: round(value_counts(normalize=True).get('Delayed', 0) * 100, 2),
\* in hundredths of a percent.
DelayPercent(data) ==
    IF CountDelayed(data) = 0 THEN 0
    ELSE RoundHalfEven(100 * 100 * CountDelayed(data), Len(data))

KPI(data) ==
    [total_tasks |-> Len(data),
     avg_actual_duration |-> AvgActualDuration(data),
     total_cost |-> TotalCost(data),
     delay_percent |-> DelayPercent(data)]

(***************************************************************************)
(* Lines 115-116: the daily trend.                                         *)
(***************************************************************************)
\* Start_Time.dt.date
Date(r) == r.Start_Time \div HoursPerDay

Dates(data) == { Date(data[i]) : i \in 1..Len(data) }

\* groupby(date)["Delay_Flag"].value_counts().unstack().fillna(0): one row per
\* date, one column per Delay_Flag value that occurs in data.
Trend(data) ==
    [d \in Dates(data) |->
        [f \in DelayFlags(data) |->
            Cardinality({ i \in 1..Len(data) :
                            Date(data[i]) = d /\ data[i].Delay_Flag = f })]]

(***************************************************************************)
(* Lines 128-134: the workload ranking.                                    *)
(***************************************************************************)
\* head(10)
TopN == 10

\* Line 128: one row per employee, keys ascending.
WorkloadTable(data) ==
    LET keys == SortedKeys(Employees(data))
    IN [i \in 1..Len(keys) |->
          [Assigned_Employee |-> keys[i],
           Actual_Duration |-> EmployeeDuration(data, keys[i])]]

\* sort_values("Actual_Duration", ascending=False) with the default
\* kind="quicksort", which is not stable: every arrangement of the rows with
\* non-increasing Actual_Duration is a possible result.
sort_values(table) ==
    { s \in [1..Len(table) -> { table[i] : i \in 1..Len(table) }] :
        /\ \A i, j \in 1..Len(table) : i # j => s[i] # s[j]
        /\ \A i \in 1..(Len(table) - 1) :
              s[i].Actual_Duration >= s[i + 1].Actual_Duration }

head(s, n) == SubSeq(s, 1, IF Len(s) < n THEN Len(s) ELSE n)

\* Line 130: the frames the bar chart may be drawn from.
Workload(data) == { head(s, TopN) : s \in sort_values(WorkloadTable(data)) }

(***************************************************************************)
(* Lines 142-160: generate_insights.                                       *)
(***************************************************************************)
\* The four messages; name is the label the f-string interpolates.
HighDelayRate == [rule |-> "high delay rate", name |-> <<>>]
HighCostDept(d) == [rule |-> "highest average cost", name |-> d]
OverloadedEmp(e) == [rule |-> "overloaded", name |-> e]
HighPriorityDelay == [rule |-> "high priority delayed", name |-> <<>>]

\* The threshold written delay_rate >= 0.3.
DelayRateAtLeast(data) ==
    Len(data) > 0 /\ 10 * CountDelayed(data) >= 3 * Len(data)

\* Lines 145-147: delay_rate > 0.3.  The mean of an empty Series is NaN and
\* NaN > 0.3 is False.
DelayRateHigh(data) ==
    Len(data) > 0 /\ 10 * CountDelayed(data) > 3 * Len(data)

\* Line 150
high_cost_dept(data) ==
    LET keys == SortedKeys(Departments(data))
    IN idxmax(keys, [i \in 1..Len(keys) |-> DeptMean(data, keys[i])])

\* Line 153
overloaded_emp(data) ==
    LET keys == SortedKeys(Employees(data))
    IN idxmax(keys, [i \in 1..Len(keys) |-> <<EmployeeDuration(data, keys[i]), 1>>])

\* Lines 156-157
high_priority_delay(data) ==
    \E i \in 1..Len(data) :
        data[i].Priority_Level = "High" /\ data[i].Delay_Flag = "Delayed"

\* The list returned, or the exception that leaves the function.
generate_insights(data) ==
    LET r1 == IF DelayRateHigh(data) THEN <<HighDelayRate>> ELSE <<>>
        r4 == IF high_priority_delay(data) THEN <<HighPriorityDelay>> ELSE <<>>
    IN IF high_cost_dept(data).raised \/ overloaded_emp(data).raised
       THEN [raised |-> TRUE, insights |-> <<>>]
       ELSE [raised |-> FALSE,
             insights |-> r1 \o <<HighCostDept(high_cost_dept(data).label)>>
                             \o <<OverloadedEmp(overloaded_emp(data).label)>>
                             \o r4]

\* The call made with df instead of filtered_df.
RecommendUnfiltered(frame, filtered) == generate_insights(frame)

\* Line 162: recommendations = generate_insights(filtered_df).
Recommend(frame, filtered) == generate_insights(filtered)

(***************************************************************************)
(* One run of the script.                                                  *)
(***************************************************************************)
\* A run of lines 22-165 on file with the widgets at depts, prios, flags
\* leaves d, f, k, t, w, r, e as the frame, the filtered frame, the KPIs, the
\* trend, the workload ranking, the recommendations and the exception.  A run
\* that raises stops there: nothing below the raising line is computed.
Run(file, depts, prios, flags, d, f, k, t, w, r, e) ==
    IF Enrich(load_data(file)).raised
    THEN /\ d = <<>>
         /\ f = <<>>
         /\ k = KPI(<<>>)
         /\ t = <<>>
         /\ w = <<>>
         /\ r = <<>>
         /\ e = "TypeError"
    ELSE /\ d = Enrich(load_data(file)).frame
         /\ f = Filter(d, depts, prios, flags)
         /\ k = KPI(f)
         /\ t = Trend(f)
         /\ w \in Workload(f)
         /\ r = Recommend(d, f).insights
         /\ e = IF Recommend(d, f).raised THEN "ValueError" ELSE "none"

\* The first run: every widget at its default, all the values of its column.
Init ==
    /\ csv \in Tables
    /\ department_filter = Departments(Enrich(load_data(csv)).frame)
    /\ priority_filter = Priorities(Enrich(load_data(csv)).frame)
    /\ delay_filter = DelayFlags(Enrich(load_data(csv)).frame)
    /\ Run(csv, department_filter, priority_filter, delay_filter,
           df, filtered_df, kpi, trend_df, workload_top, recommendations, error)

\* A run after the widgets took the values depts, prios, flags.
Script(depts, prios, flags) ==
    /\ department_filter' = depts
    /\ priority_filter' = prios
    /\ delay_filter' = flags
    /\ Run(csv, depts, prios, flags,
           df', filtered_df', kpi', trend_df', workload_top', recommendations',
           error')
    /\ UNCHANGED csv

\* The widgets exist once the run has passed line 65.
WidgetsShown == error # "TypeError"

SelectDepartment ==
    /\ WidgetsShown
    /\ \E S \in SUBSET Departments(df) :
         /\ S # department_filter
         /\ Script(S, priority_filter, delay_filter)

SelectPriority ==
    /\ WidgetsShown
    /\ \E S \in SUBSET Priorities(df) :
         /\ S # priority_filter
         /\ Script(department_filter, S, delay_filter)

SelectDelayStatus ==
    /\ WidgetsShown
    /\ \E S \in SUBSET DelayFlags(df) :
         /\ S # delay_filter
         /\ Script(department_filter, priority_filter, S)

\* The user reruns the page without touching a widget.
Rerun == Script(department_filter, priority_filter, delay_filter)

Next == SelectDepartment \/ SelectPriority \/ SelectDelayStatus \/ Rerun

Spec == Init /\ [][Next]_vars

(***************************************************************************)
(* Properties.                                                             *)
(***************************************************************************)
\* The run reached the filter (lines 29-42 did not raise).
Filtered == error # "TypeError"

\* The run computed everything down to the recommendations.
Completed == error = "none"

Selected(r) ==
    /\ r.Department \in department_filter
    /\ r.Priority_Level \in priority_filter
    /\ r.Delay_Flag \in delay_filter

NumDelayed(data) ==
    Cardinality({ i \in 1..Len(data) : data[i].Delay_Flag = "Delayed" })

\* C1: generate_insights on an empty filtered set returns normally, and what
\* it returns is the empty list (no rule fires).
C1_EmptySetGivesEmptyList ==
    (Filtered /\ filtered_df = <<>>) => (Completed /\ recommendations = <<>>)

\* s is t with some rows left out, the others in their order.
RECURSIVE IsSubsequence(_, _)
IsSubsequence(s, t) ==
    IF s = <<>> THEN TRUE
    ELSE IF t = <<>> THEN FALSE
    ELSE IF Head(s) = Head(t) THEN IsSubsequence(Tail(s), Tail(t))
    ELSE IsSubsequence(s, Tail(t))

\* C2: the filtered frame is the subsequence of the enriched rows, unchanged and
\* in order, whose department, priority and delay flag are each in the
\* corresponding selection; an empty selection in a dimension gives no rows and
\* the selection of all values gives every row.
C2_FilterIsSelectedSubsequence ==
    Filtered =>
        /\ IsSubsequence(filtered_df, df)
        /\ \A i \in 1..Len(filtered_df) : Selected(filtered_df[i])
        /\ Len(filtered_df) = Cardinality({ i \in 1..Len(df) : Selected(df[i]) })
        /\ ({} \in {department_filter, priority_filter, delay_filter}
              => filtered_df = <<>>)
        /\ (/\ department_filter = Departments(df)
            /\ priority_filter = Priorities(df)
            /\ delay_filter = DelayFlags(df)) => filtered_df = df

\* A selection that keeps two or more rows and drops one that lies between
\* kept rows or before them.
C2_Witness ==
    /\ Filtered
    /\ Len(filtered_df) >= 2
    /\ Len(filtered_df) < Len(df)
    /\ ~Selected(df[1])
    /\ delay_filter # DelayFlags(df)

\* C3: enrichment never raises and yields one enriched row per input row.
C3_EnrichmentIsTotal ==
    Filtered /\ Len(df) = Len(csv)

\* C4: an enriched row is "Delayed" exactly when both durations are present
\* and actual - estimated > 0; with a difference of 0 or a missing duration it
\* is "On-Time", and there is no third value.
C4_DelayedIffPositiveDifference ==
    \A i \in 1..Len(df) :
        LET a == csv[i].Actual_Duration
            b == csv[i].Estimated_Duration
            late == a.k = "num" /\ b.k = "num" /\ a.n - b.n > 0
        IN /\ df[i].Delay_Flag \in {"Delayed", "On-Time"}
           /\ df[i].Delay_Flag = "Delayed" <=> late
           /\ df[i].Duration_Difference.k = "num" <=> (a.k = "num" /\ b.k = "num")
           /\ df[i].Duration_Difference.k = "num"
                => df[i].Duration_Difference.n = a.n - b.n

\* A frame with a late row, a row exactly on its estimate and a row whose
\* actual duration is missing.
C4_Witness ==
    /\ \E i \in 1..Len(df) : df[i].Delay_Flag = "Delayed"
    /\ \E i \in 1..Len(df) :
          df[i].Duration_Difference = Num(0) /\ df[i].Delay_Flag = "On-Time"
    /\ \E i \in 1..Len(df) :
          df[i].Duration_Difference = NaN /\ df[i].Delay_Flag = "On-Time"

\* C5: on a non-empty filtered set the list is, in this order, the rule-1
\* message iff more than 30 % of the rows are "Delayed", the rule-2 message,
\* the rule-3 message, and the rule-4 message iff some row is "High" and
\* "Delayed"; so it has two to four entries.
C5_RulesInFixedOrder ==
    (Filtered /\ filtered_df # <<>>) =>
        LET r == recommendations
            one == 10 * NumDelayed(filtered_df) > 3 * Len(filtered_df)
            four == \E i \in 1..Len(filtered_df) :
                        /\ filtered_df[i].Priority_Level = "High"
                        /\ filtered_df[i].Delay_Flag = "Delayed"
            at == IF one THEN 2 ELSE 1
        IN /\ Completed
           /\ Len(r) = at + 1 + (IF four THEN 1 ELSE 0)
           /\ Len(r) \in 2..4
           /\ one => r[1] = HighDelayRate
           /\ r[at].rule = "highest average cost"
           /\ r[at + 1].rule = "overloaded"
           /\ four => r[Len(r)] = HighPriorityDelay

\* A filtered set of which exactly 30 % is delayed: rule 1 stays silent.
C5_Witness ==
    /\ Completed
    /\ Len(filtered_df) = 10
    /\ NumDelayed(filtered_df) = 3
    /\ recommendations[1] # HighDelayRate

\* C6 as stated: the Delay % KPI is exactly 100 * delayed / rows, lies in
\* [0, 100], is 0 on the empty set and 100 when every row is delayed.
C6_DelayPercentExact ==
    Filtered =>
        LET n == Len(filtered_df)
            k == NumDelayed(filtered_df)
        IN /\ kpi.delay_percent * n = 100 * 100 * k
           /\ kpi.delay_percent \in 0..(100 * 100)
           /\ n = 0 => kpi.delay_percent = 0
           /\ (n > 0 /\ k = n) => kpi.delay_percent = 100 * 100

\* C6 amended: the Delay % KPI is 100 * delayed / rows rounded to two decimals
\* (within half a hundredth of it), lies in [0, 100], is 0 on the empty set
\* and 100 when every row is delayed.
C6_DelayPercentRounded ==
    Filtered =>
        LET n == Len(filtered_df)
            k == NumDelayed(filtered_df)
            off == kpi.delay_percent * n - 100 * 100 * k
        IN /\ 2 * off <= n /\ 2 * off >= -n
           /\ kpi.delay_percent \in 0..(100 * 100)
           /\ n = 0 => kpi.delay_percent = 0
           /\ (n > 0 /\ k = n) => kpi.delay_percent = 100 * 100

\* Two delayed rows of three: 66.67 %.
C6_Witness ==
    /\ Filtered
    /\ Len(filtered_df) = 3
    /\ NumDelayed(filtered_df) = 2
    /\ kpi.delay_percent = 6667

\* C7: on a non-empty filtered set rule 2 names a department of the set whose
\* mean cost no other department exceeds, and of the departments with that
\* mean the first in alphabetical order.
C7_HighestMeanCostDepartment ==
    (Filtered /\ filtered_df # <<>>) =>
        \E m \in 1..Len(recommendations) :
            LET top == recommendations[m].name
            IN /\ recommendations[m].rule = "highest average cost"
               /\ top \in Departments(filtered_df)
               /\ \A d \in Departments(filtered_df) \ {top} :
                     LET sd == DeptCostSum(filtered_df, d)
                         nd == DeptCount(filtered_df, d)
                         st == DeptCostSum(filtered_df, top)
                         nt == DeptCount(filtered_df, top)
                     IN /\ st * nd >= sd * nt
                        /\ st * nd = sd * nt => StrLess(top, d)

\* Two departments with the same mean cost, the later one with the larger
\* total: the earlier one is named.
C7_Witness ==
    /\ Completed
    /\ Departments(filtered_df) = {IT, Ops}
    /\ DeptCostSum(filtered_df, IT) * DeptCount(filtered_df, Ops)
         = DeptCostSum(filtered_df, Ops) * DeptCount(filtered_df, IT)
    /\ DeptCostSum(filtered_df, Ops) > DeptCostSum(filtered_df, IT)
    /\ \E m \in 1..Len(recommendations) : recommendations[m] = HighCostDept(IT)

\* C8: the workload ranking lists min(top_n, employees) employees by summed
\* actual duration, largest first, equal sums by employee ascending, and no
\* employee left out has a larger sum than one listed.
C8_WorkloadRankedWithTieBreak ==
    Filtered =>
        LET w == workload_top
            all == Employees(filtered_df)
            listed == { w[i].Assigned_Employee : i \in 1..Len(w) }
        IN /\ Len(w) = (IF Cardinality(all) < TopN THEN Cardinality(all) ELSE TopN)
           /\ listed \subseteq all
           /\ Cardinality(listed) = Len(w)
           /\ \A i \in 1..Len(w) :
                 w[i].Actual_Duration
                    = EmployeeDuration(filtered_df, w[i].Assigned_Employee)
           /\ \A i \in 1..(Len(w) - 1) :
                 \/ w[i].Actual_Duration > w[i + 1].Actual_Duration
                 \/ /\ w[i].Actual_Duration = w[i + 1].Actual_Duration
                    /\ StrLess(w[i].Assigned_Employee, w[i + 1].Assigned_Employee)
           /\ \A e \in all \ listed : \A i \in 1..Len(w) :
                 EmployeeDuration(filtered_df, e) <= w[i].Actual_Duration

\* C9: the trend has one entry per date of the filtered set, and every entry
\* has both keys "Delayed" and "On-Time" with that date's count, 0 included.
C9_TrendHasBothKeys ==
    Filtered =>
        /\ DOMAIN trend_df = Dates(filtered_df)
        /\ \A d \in DOMAIN trend_df :
              /\ DOMAIN trend_df[d] = {"Delayed", "On-Time"}
              /\ \A f \in DOMAIN trend_df[d] :
                    trend_df[d][f] =
                        Cardinality({ i \in 1..Len(filtered_df) :
                            /\ Date(filtered_df[i]) = d
                            /\ filtered_df[i].Delay_Flag = f })

\* The rows of data at the positions in idx, by ascending position.
RowsAt(data, idx) ==
    [j \in 1..Cardinality(idx) |->
        data[CHOOSE i \in idx : Cardinality({ m \in idx : m < i }) = j - 1]]

\* The rows of data that the selection depts, prios, flags admits.
Admitted(data, depts, prios, flags) ==
    RowsAt(data, { i \in 1..Len(data) :
                     /\ data[i].Department \in depts
                     /\ data[i].Priority_Level \in prios
                     /\ data[i].Delay_Flag \in flags })

\* C10: whatever the selections were before, a run leaves the enriched rows as
\* they were, and the filtered set, the KPIs, the trend, the ranking and the
\* recommendations it presents are those of the current selection applied to
\* the enriched rows.
C10_FreshRecomputation ==
    [][ /\ df' = df
        /\ Filtered' =>
             /\ filtered_df' = Admitted(df', department_filter', priority_filter',
                                      delay_filter')
             /\ kpi' = KPI(filtered_df')
             /\ trend_df' = Trend(filtered_df')
             /\ workload_top' \in Workload(filtered_df')
             /\ recommendations' = generate_insights(filtered_df').insights
             /\ Completed' = ~generate_insights(filtered_df').raised ]_vars

\* A state reached by changing two different widgets, one after the other.
C10_Witness ==
    /\ Completed
    /\ department_filter # Departments(df)
    /\ priority_filter # Priorities(df)
    /\ Len(filtered_df) >= 2
    /\ Len(filtered_df) < Len(df)

====
